---- MODULE Spec2Model ----
(***************************************************************************)
(* A model of the act-logically Datalog engine: the syntax crate's        *)
(* Program construction, the MicroRuntime facade (insert / contains /     *)
(* query / poll / safe) and the semi-naive driver.  The relation storage, *)
(* the delta-program transform, the stratifier and the rule evaluator are *)
(* modelled from their documented contracts.                               *)
(***************************************************************************)
EXTENDS Naturals, Integers, Sequences, FiniteSets, TLC

(***************************************************************************)
(* Bounds of the model.                                                    *)
(***************************************************************************)
\* How many distinct facts may be inserted over the life of one runtime.
MaxFacts == 3

\* The longest Vec<Rule> that Program::from is given.
MaxRules == 3

\* The node constants that edge facts are drawn from.
Nodes == {"a", "b", "c"}

(***************************************************************************)
(* datalog-syntax: terms, atoms, rules.                                    *)
(***************************************************************************)
\* Term::Variable(name)
Variable(n) == [kind |-> "Variable", v |-> n]

\* Term::Constant(TypedValue::Str(value))
Constant(c) == [kind |-> "Constant", v |-> c]

\* Atom { terms, symbol }
Atom(sym, ts) == [terms |-> ts, symbol |-> sym]

\* Rule { head, body, id }
Rule(h, b, i) == [head |-> h, body |-> b, id |-> i]

\* Every string of the model, in the byte order Rust's String::cmp gives
\* (upper case before lower case, the delta marker after all of ASCII).
DELTA_PREFIX == "Δ"

BaseSymbols == <<"ENV", "FENV", "INPUTS", "e", "p", "tc", "zz">>

StrOrder ==
    <<"ENV", "FENV", "INPUTS", "a", "b", "c", "cfg", "e", "env", "p", "tc",
      "x", "y", "z", "zz">>
    \o [i \in 1..Len(BaseSymbols) |-> DELTA_PREFIX \o BaseSymbols[i]]

StrRank(s) == CHOOSE i \in 1..Len(StrOrder) : StrOrder[i] = s

\* Ordering results: -1 (Less), 0 (Equal), 1 (Greater).
CmpNat(a, b) == IF a < b THEN 0 - 1 ELSE IF a = b THEN 0 ELSE 1

CmpStr(a, b) == CmpNat(StrRank(a), StrRank(b))

\* derive(Ord) on Term: the variant first (Variable < Constant), then the payload.
KindRank(t) == IF t.kind = "Variable" THEN 0 ELSE 1

CmpTerm(s, t) ==
    IF KindRank(s) # KindRank(t) THEN CmpNat(KindRank(s), KindRank(t))
    ELSE CmpStr(s.v, t.v)

\* Vec<Term>::cmp: lexicographic, a proper prefix is smaller.
RECURSIVE CmpTerms(_, _)
CmpTerms(s, t) ==
    IF s = <<>> /\ t = <<>> THEN 0
    ELSE IF s = <<>> THEN 0 - 1
    ELSE IF t = <<>> THEN 1
    ELSE LET c == CmpTerm(Head(s), Head(t))
         IN  IF c # 0 THEN c ELSE CmpTerms(Tail(s), Tail(t))

\* derive(Ord) on Atom: the fields in declaration order, terms then symbol.
CmpAtom(a, b) ==
    LET c == CmpTerms(a.terms, b.terms)
    IN  IF c # 0 THEN c ELSE CmpStr(a.symbol, b.symbol)

RECURSIVE CmpAtoms(_, _)
CmpAtoms(s, t) ==
    IF s = <<>> /\ t = <<>> THEN 0
    ELSE IF s = <<>> THEN 0 - 1
    ELSE IF t = <<>> THEN 1
    ELSE LET c == CmpAtom(Head(s), Head(t))
         IN  IF c # 0 THEN c ELSE CmpAtoms(Tail(s), Tail(t))

\* derive(Ord) on Rule: head, then body, then id.
CmpRule(r, s) ==
    LET c == CmpAtom(r.head, s.head)
    IN  IF c # 0 THEN c
        ELSE LET d == CmpAtoms(r.body, s.body)
             IN  IF d # 0 THEN d ELSE CmpNat(r.id, s.id)

\* Insert r into the sorted sequence s, after every element not greater than it.
RECURSIVE InsertSorted(_, _)
InsertSorted(r, s) ==
    IF s = <<>> THEN <<r>>
    ELSE IF CmpRule(r, Head(s)) < 0 THEN <<r>> \o s
    ELSE <<Head(s)>> \o InsertSorted(r, Tail(s))

\* val.sort(): a stable sort by CmpRule.
RECURSIVE SortRules(_)
SortRules(s) ==
    IF s = <<>> THEN <<>>
    ELSE InsertSorted(s[Len(s)], SortRules(SubSeq(s, 1, Len(s) - 1)))

\* A fault: the rules are sorted and keep the ids they came with.
ProgramFromKeepsIds(value) == SortRules(value)

\* The sorted sequence s without the rules that repeat the head and body of the
\* rule before them.
RECURSIVE DropRepeated(_)
DropRepeated(s) ==
    IF Len(s) < 2 THEN s
    ELSE IF s[1].head = s[2].head /\ s[1].body = s[2].body
         THEN DropRepeated(Tail(s))
         ELSE <<s[1]>> \o DropRepeated(Tail(s))

\* A fault: a dedup() after the sort, which the code does not have.
ProgramFromDedup(value) ==
    LET val == DropRepeated(SortRules(value))
    IN  [i \in 1..Len(val) |-> Rule(val[i].head, val[i].body, i - 1)]

\* impl From<Vec<Rule>> for Program: sort, then id := position (from 0).
ProgramFrom(value) ==
    LET val == SortRules(value)
    IN  [i \in 1..Len(val) |-> Rule(val[i].head, val[i].body, i - 1)]

(***************************************************************************)
(* engine::storage::RelationStorage: a map from relation name to a set of *)
(* facts (a fact is an AnonymousGroundAtom, a tuple of values).            *)
(***************************************************************************)
\* RelationStorage::default(): no entry at all.
EmptyStorage == [n \in {} |-> {}]

\* format!("{}{}", DELTA_PREFIX, symbol)
Delta(sym) == DELTA_PREFIX \o sym

DeltaSymbols == {Delta(BaseSymbols[i]) : i \in 1..Len(BaseSymbols)}

\* A relation name that starts with the delta marker.
IsDelta(sym) == sym \in DeltaSymbols

\* The base relation a delta relation shadows.
StripDelta(sym) ==
    IF IsDelta(sym)
    THEN BaseSymbols[CHOOSE i \in 1..Len(BaseSymbols) : Delta(BaseSymbols[i]) = sym]
    ELSE sym

\* RelationStorage::get_relation: the facts of a relation, none for an unknown name.
get_relation(st, sym) == IF sym \in DOMAIN st THEN st[sym] ELSE {}

\* RelationStorage::contains: membership, false for an unknown name.
StorageContains(st, sym, fact) == fact \in get_relation(st, sym)

\* RelationStorage::insert, the storage it leaves: the fact joins the relation's
\* set, and a relation with no entry gets one.
StorageInsert(st, sym, fact) ==
    IF sym \in DOMAIN st
    THEN [st EXCEPT ![sym] = @ \cup {fact}]
    ELSE st @@ (sym :> {fact})

\* RelationStorage::insert, its result: whether the fact was new to the relation.
StorageInsertIsNew(st, sym, fact) == ~StorageContains(st, sym, fact)

\* RelationStorage::insert_registered: the bulk variant.
insert_registered(st, sym, facts) ==
    IF sym \in DOMAIN st
    THEN [st EXCEPT ![sym] = @ \cup facts]
    ELSE st @@ (sym :> facts)

\* RelationStorage::drain_all_relations, what it yields: every entry with the
\* facts it held.
DrainedRelations(st) == {<<sym, st[sym]>> : sym \in DOMAIN st}

\* RelationStorage::drain_all_relations, the storage it leaves: every entry kept,
\* and emptied.
DrainAllRelations(st) == [sym \in DOMAIN st |-> {}]

\* RelationStorage::drain_deltas: every delta relation cleared, base relations kept.
drain_deltas(st) == [sym \in DOMAIN st |-> IF IsDelta(sym) THEN {} ELSE st[sym]]

RECURSIVE SumCard(_, _)
SumCard(st, syms) ==
    IF syms = {} THEN 0
    ELSE LET s == CHOOSE s \in syms : TRUE
         IN  Cardinality(st[s]) + SumCard(st, syms \ {s})

\* RelationStorage::len: the fact count over the non-delta relations.
StorageLen(st) == SumCard(st, {sym \in DOMAIN st : ~IsDelta(sym)})

\* RelationStorage::is_empty: no relation holds a fact.
StorageIsEmpty(st) == \A sym \in DOMAIN st : st[sym] = {}

(***************************************************************************)
(* The rule evaluator: a left-to-right nested-loop join over the body,     *)
(* then the head built from the bindings.                                  *)
(***************************************************************************)
EmptyBinding == [n \in {} |-> ""]

\* Unify the terms from position i on with a candidate fact under binding b:
\* the set holding the extended binding, or the empty set when it is rejected.
RECURSIVE Unify(_, _, _, _)
Unify(terms, fact, i, b) ==
    IF i > Len(terms) THEN {b}
    ELSE LET t == terms[i]
         IN  IF t.kind = "Constant"
             THEN IF t.v = fact[i] THEN Unify(terms, fact, i + 1, b) ELSE {}
             ELSE IF t.v \in DOMAIN b
                  THEN IF b[t.v] = fact[i] THEN Unify(terms, fact, i + 1, b) ELSE {}
                  ELSE Unify(terms, fact, i + 1, b @@ (t.v :> fact[i]))

UnifyAtom(atom, fact, b) ==
    IF Len(fact) # Len(atom.terms) THEN {} ELSE Unify(atom.terms, fact, 1, b)

\* The bindings that the body atoms from position i on accept, starting from bs.
RECURSIVE Join(_, _, _, _)
Join(body, i, bs, st) ==
    IF i > Len(body) THEN bs
    ELSE Join(body, i + 1,
              UNION {UNION {UnifyAtom(body[i], f, b) :
                               f \in get_relation(st, body[i].symbol)} : b \in bs},
              st)

\* The head ground atom under a binding.
HeadFact(head, b) ==
    [i \in 1..Len(head.terms) |->
        IF head.terms[i].kind = "Constant" THEN head.terms[i].v
        ELSE b[head.terms[i].v]]

\* Every ground atom one application of the rule derives from the storage.
EvaluateRule(rule, st) ==
    {HeadFact(rule.head, b) : b \in Join(rule.body, 1, {EmptyBinding}, st)}

\* What a delta rule derived goes into the head's delta relation and into its
\* base relation.
StoreDerived(st, rule, facts) ==
    insert_registered(insert_registered(st, rule.head.symbol, facts),
                      StripDelta(rule.head.symbol), facts)

\* RelationStorage::materialize_nonrecursive_delta_program: the rules applied
\* once each in the program's (dependency) order, each one reading what the
\* earlier ones stored.
RECURSIVE MaterializeInOrder(_, _, _)
MaterializeInOrder(prog, i, st) ==
    IF i > Len(prog) THEN st
    ELSE MaterializeInOrder(prog, i + 1,
                            StoreDerived(st, prog[i], EvaluateRule(prog[i], st)))

materialize_nonrecursive_delta_program(st, prog) == MaterializeInOrder(prog, 1, st)

\* RelationStorage::materialize_recursive_delta_program: one iteration; every
\* rule is evaluated against the storage as the iteration found it, then what
\* they derived is stored.
RECURSIVE StoreAll(_, _, _, _)
StoreAll(prog, i, snapshot, st) ==
    IF i > Len(prog) THEN st
    ELSE StoreAll(prog, i + 1, snapshot,
                  StoreDerived(st, prog[i], EvaluateRule(prog[i], snapshot)))

materialize_recursive_delta_program(st, prog) == StoreAll(prog, 1, st, st)

(***************************************************************************)
(* program_transformations: the delta program, the split into a            *)
(* nonrecursive and a recursive part, the dependency order.                *)
(***************************************************************************)
\* The delta rules of one rule: one per body position, that position reading
\* the delta relation, the head naming the delta relation; id 0 until sorted.
DeltaRulesOf(rule) ==
    [i \in 1..Len(rule.body) |->
        Rule(Atom(Delta(rule.head.symbol), rule.head.terms),
             [rule.body EXCEPT ![i] = Atom(Delta(@.symbol), @.terms)],
             0)]

RECURSIVE ConcatDeltaRules(_, _)
ConcatDeltaRules(prog, i) ==
    IF i > Len(prog) THEN <<>>
    ELSE DeltaRulesOf(prog[i]) \o ConcatDeltaRules(prog, i + 1)

\* make_delta_program(&program, true), the update flag set as MicroRuntime::new
\* sets it.
make_delta_program(prog) == ProgramFrom(ConcatDeltaRules(prog, 1))

\* The dependency graph: an edge from each body relation to the head relation.
DependencyEdges(prog) ==
    UNION {{<<prog[i].body[j].symbol, prog[i].head.symbol>> :
              j \in 1..Len(prog[i].body)} : i \in 1..Len(prog)}

\* The pairs joined by a path of one or more edges.
RECURSIVE TransitiveClosure(_)
TransitiveClosure(edges) ==
    LET more == edges \cup
                {<<pq[1][1], pq[2][2]>> :
                    pq \in {rs \in edges \X edges : rs[1][2] = rs[2][1]}}
    IN  IF more = edges THEN edges ELSE TransitiveClosure(more)

\* A relation is recursive if it reaches itself by a path of one or more edges.
RecursiveRelations(prog) ==
    {e[1] : e \in {f \in TransitiveClosure(DependencyEdges(prog)) : f[1] = f[2]}}

\* split_program: a rule is recursive iff its head relation is; the result is
\* <<nonrecursive, recursive>>.
split_program(prog) ==
    LET rec == RecursiveRelations(prog)
    IN  <<ProgramFrom(SelectSeq(prog, LAMBDA r : r.head.symbol \notin rec)),
          ProgramFrom(SelectSeq(prog, LAMBDA r : r.head.symbol \in rec))>>

\* The length of the longest dependency path that ends in a relation.
RECURSIVE DependencyDepth(_, _)
DependencyDepth(sym, edges) ==
    LET preds == {e[1] : e \in {f \in edges : f[2] = sym}}
        depths == {DependencyDepth(p, edges) : p \in preds}
    IN  IF preds = {} THEN 0
        ELSE 1 + CHOOSE d \in depths : \A o \in depths : o <= d

RECURSIVE RulesByDepth(_, _, _)
RulesByDepth(prog, edges, d) ==
    IF d > Len(prog) THEN <<>>
    ELSE SelectSeq(prog, LAMBDA r : DependencyDepth(r.head.symbol, edges) = d)
         \o RulesByDepth(prog, edges, d + 1)

\* sort_program: the nonrecursive rules in a topological order of the relation
\* dependencies, a rule after every rule that derives one of its body relations.
sort_program(prog) == RulesByDepth(prog, DependencyEdges(prog), 0)

(***************************************************************************)
(* The programs a runtime is constructed from, as the program! macro       *)
(* builds them: every rule with id 0, then Program::from.                  *)
(***************************************************************************)
X == Variable("x")
Y == Variable("y")
Z == Variable("z")

\* tc(?x, ?y) <- [e(?x, ?y)], tc(?x, ?z) <- [e(?x, ?y), tc(?y, ?z)]
TcRules ==
    <<Rule(Atom("tc", <<X, Y>>), <<Atom("e", <<X, Y>>)>>, 0),
      Rule(Atom("tc", <<X, Z>>), <<Atom("e", <<X, Y>>), Atom("tc", <<Y, Z>>)>>, 0)>>

\* The transitive closure next to a rule that reads it: p(?x) <- [tc(?x, ?y)]
TcpRules == TcRules \o <<Rule(Atom("p", <<X>>), <<Atom("tc", <<X, Y>>)>>, 0)>>

\* ENV(?x, ?y) <- [INPUTS("env", ?x, ?y)], FENV(?x) <- [ENV(?x, ?y)]
EnvRules ==
    <<Rule(Atom("ENV", <<X, Y>>), <<Atom("INPUTS", <<Constant("env"), X, Y>>)>>, 0),
      Rule(Atom("FENV", <<X>>), <<Atom("ENV", <<X, Y>>)>>, 0)>>

tc_program == ProgramFrom(TcRules)

tcp_program == ProgramFrom(TcpRules)

env_program == ProgramFrom(EnvRules)

Programs == {tc_program, tcp_program, env_program}

\* Rule values as a caller builds them directly, without the rule! macro: the
\* rules above and p(?x, ?z) <- [e(?x, ?y)], whose head variable ?z is in no
\* body atom, each with an id the caller chose.
UnsafeRule == Rule(Atom("p", <<X, Z>>), <<Atom("e", <<X, Y>>)>>, 0)

RuleIds == {0, 5}

RuleUniverse ==
    {Rule(r.head, r.body, i) :
        r \in {TcRules[1], TcRules[2], EnvRules[2], UnsafeRule}, i \in RuleIds}

\* The Vec<Rule> values given to Program::from.
RuleVecs == UNION {[1..n -> RuleUniverse] : n \in 0..MaxRules}

\* The variables among the terms of an atom.
VariablesOf(atom) ==
    {atom.terms[i].v : i \in {j \in 1..Len(atom.terms) : atom.terms[j].kind = "Variable"}}

\* The head-safety check of the rule! macro: every variable of the head is in
\* some body atom.
HeadSafe(rule) ==
    VariablesOf(rule.head) \subseteq
        UNION {VariablesOf(rule.body[j]) : j \in 1..Len(rule.body)}

\* The relation names a program mentions, in a head or in a body.
RelationsOf(prog) ==
    {prog[i].head.symbol : i \in 1..Len(prog)} \cup
    UNION {{prog[i].body[j].symbol : j \in 1..Len(prog[i].body)} : i \in 1..Len(prog)}

\* The facts insert is called with: <<relation, fact>> pairs.  Edge facts over
\* the nodes, a derived relation written to directly, tagged INPUTS rows, and a
\* relation no program mentions.
EdgeFacts ==
    {<<"e", <<uv[1], uv[2]>>>> :
        uv \in {p \in Nodes \X Nodes : p[1] # p[2] /\ p # <<"c", "b">>}}

InputsFacts ==
    {<<"INPUTS", <<t, u, v>>>> : t \in {"env", "cfg"}, u \in {"a", "b"}, v \in {"c"}}

InsertUniverse(prog) ==
    IF prog = env_program
    THEN InputsFacts \cup {<<"ENV", <<"a", "b">>>>, <<"zz", <<"a">>>>}
    ELSE EdgeFacts \cup {<<"tc", <<"c", "a">>>>, <<"zz", <<"a">>>>}

\* Matcher::Any and Matcher::Constant(value)
MAny == [kind |-> "Any", v |-> ""]

MConstant(c) == [kind |-> "Constant", v |-> c]

\* Query { matchers, symbol }
MkQuery(sym, ms) == [matchers |-> ms, symbol |-> sym]

\* The queries the caller asks.
QueryUniverse(prog) ==
    IF prog = env_program
    THEN {MkQuery("FENV", <<MAny>>), MkQuery("ENV", <<MConstant("a"), MAny>>),
          MkQuery("zz", <<MAny>>)}
    ELSE {MkQuery("tc", <<MAny, MAny>>), MkQuery("tc", <<MConstant("a"), MAny>>),
          MkQuery("zz", <<MAny>>)}

\* The <<relation, fact>> pairs the caller probes with contains.
ContainsUniverse(prog) ==
    IF prog = env_program
    THEN {<<"INPUTS", <<"env", "a", "b">>>>, <<"FENV", <<"a">>>>, <<"zz", <<"a">>>>}
    ELSE {<<"e", <<"a", "b">>>>, <<"tc", <<"a", "c">>>>}

(***************************************************************************)
(* evaluation::query::pattern_match                                        *)
(***************************************************************************)
pattern_match(query, fact) ==
    /\ Len(query.matchers) = Len(fact)
    /\ \A i \in 1..Len(fact) :
          query.matchers[i].kind = "Any" \/ query.matchers[i].v = fact[i]

(***************************************************************************)
(* engine::datalog::MicroRuntime                                           *)
(***************************************************************************)
VARIABLES
    program,                      \* the Program given to MicroRuntime::new
    processed,                    \* MicroRuntime.processed
    unprocessed_insertions,       \* MicroRuntime.unprocessed_insertions
    nonrecursive_delta_program,   \* MicroRuntime.nonrecursive_delta_program
    recursive_delta_program,      \* MicroRuntime.recursive_delta_program
    pc,                           \* where poll() stands: "idle" between calls
    seed_passes,                  \* nonrecursive materializations of the last poll
    recursive_passes,             \* recursive materializations of the last poll
    inserted,                     \* every <<relation, fact>> insert was given
    rounds,                       \* polls that found facts buffered: 0, 1, 2 = more
    pending,                      \* an insert has happened since the last poll
    ret                           \* the last call and what it returned

vars ==
    <<program, processed, unprocessed_insertions, nonrecursive_delta_program,
      recursive_delta_program, pc, seed_passes, recursive_passes, inserted, rounds,
      pending, ret>>

PollNeeded == "poll needed to obtain correct results"

\* MicroRuntime::new, the processed storage: an empty entry for every relation
\* of the program and for its delta relation.
NewProcessed(prog) ==
    [sym \in RelationsOf(prog) \cup {Delta(r) : r \in RelationsOf(prog)} |-> {}]

\* MicroRuntime::new, the buffer: an empty entry for every relation.
NewUnprocessed(prog) == [sym \in RelationsOf(prog) |-> {}]

\* A fault: the nonrecursive delta program is kept as split_program left it,
\* not put in dependency order.
NewDeltaProgramsUnsorted(prog) == split_program(make_delta_program(prog))

\* MicroRuntime::new, the two delta programs: <<nonrecursive, recursive>>, the
\* nonrecursive one in dependency order.
NewDeltaPrograms(prog) ==
    LET parts == split_program(make_delta_program(prog))
    IN  <<sort_program(parts[1]), parts[2]>>

\* A fault: safe() asks the processed storage instead of the buffer.
SafeOnProcessed == StorageIsEmpty(processed)

\* A fault: safe() asks whether the buffer has no entry (the map's own
\* is_empty) instead of whether it holds no fact.
SafeNoEntries == DOMAIN unprocessed_insertions = {}

\* MicroRuntime::safe
safe == StorageIsEmpty(unprocessed_insertions)

\* A fault: contains without the safe() check.
ContainsUnguarded(relation, ground_atom) ==
    IF ~StorageContains(processed, relation, ground_atom)
    THEN [ok |-> StorageContains(unprocessed_insertions, relation, ground_atom)]
    ELSE [ok |-> TRUE]

\* MicroRuntime::contains, its result.
contains(relation, ground_atom) ==
    IF ~safe THEN [err |-> PollNeeded]
    ELSE IF ~StorageContains(processed, relation, ground_atom)
         THEN [ok |-> StorageContains(unprocessed_insertions, relation, ground_atom)]
         ELSE [ok |-> TRUE]

\* A fault: query refuses a relation the processed storage has no entry for.
QueryRejectsUnknown(q) ==
    IF ~safe THEN [err |-> PollNeeded]
    ELSE IF q.symbol \notin DOMAIN processed THEN [err |-> "unknown relation"]
    ELSE [ok |-> {fact \in get_relation(processed, q.symbol) : pattern_match(q, fact)}]

\* A fault: query without the pattern filter.
QueryUnfiltered(q) ==
    IF ~safe THEN [err |-> PollNeeded]
    ELSE [ok |-> get_relation(processed, q.symbol)]

\* MicroRuntime::query, its result.
query(q) ==
    IF ~safe THEN [err |-> PollNeeded]
    ELSE [ok |-> {fact \in get_relation(processed, q.symbol) : pattern_match(q, fact)}]

\* poll's first step: every drained <<relation, facts>> goes into the delta
\* relation and into the relation itself.
RECURSIVE DumpDrained(_, _)
DumpDrained(st, drained) ==
    IF drained = {} THEN st
    ELSE LET d == CHOOSE d \in drained : TRUE
         IN  DumpDrained(
                 insert_registered(insert_registered(st, Delta(d[1]), d[2]), d[1], d[2]),
                 drained \ {d})

\* semi_naive_evaluation's loop: recursive passes until one adds no fact to the
\* non-delta relations.
RECURSIVE RecursiveLoop(_, _)
RecursiveLoop(st, rec) ==
    LET after == materialize_recursive_delta_program(st, rec)
    IN  IF StorageLen(after) - StorageLen(st) = 0 THEN after
        ELSE RecursiveLoop(after, rec)

\* semi_naive_evaluation: the seed pass, then the loop.
semi_naive_evaluation(st, nonrec, rec) ==
    RecursiveLoop(materialize_nonrecursive_delta_program(st, nonrec), rec)

\* MicroRuntime::poll as one function of the two storages: the processed
\* storage it leaves.
PollResult(proc, unproc, nonrec, rec) ==
    IF StorageIsEmpty(unproc) THEN proc
    ELSE drain_deltas(
             semi_naive_evaluation(DumpDrained(proc, DrainedRelations(unproc)),
                                   nonrec, rec))

\* MicroRuntime::new(prog) for one of the programs in progs.
InitWith(progs) ==
    /\ program \in progs
    /\ processed = NewProcessed(program)
    /\ unprocessed_insertions = NewUnprocessed(program)
    /\ nonrecursive_delta_program = NewDeltaPrograms(program)[1]
    /\ recursive_delta_program = NewDeltaPrograms(program)[2]
    /\ pc = "idle"
    /\ seed_passes = 0
    /\ recursive_passes = 0
    /\ inserted = {}
    /\ rounds = 0
    /\ pending = FALSE
    /\ ret = [op |-> "new"]

\* A fault: insert reports whether the fact is new to the processed storage.
InsertReportsProcessed(relation, ground_atom) ==
    /\ pc = "idle"
    /\ <<relation, ground_atom>> \in inserted \/ Cardinality(inserted) < MaxFacts
    /\ unprocessed_insertions' =
           StorageInsert(unprocessed_insertions, relation, ground_atom)
    /\ ret' = [op |-> "insert", relation |-> relation, fact |-> ground_atom,
               val |-> StorageInsertIsNew(processed, relation, ground_atom)]
    /\ inserted' = inserted \cup {<<relation, ground_atom>>}
    /\ pending' = TRUE
    /\ UNCHANGED <<program, processed, nonrecursive_delta_program,
                   recursive_delta_program, pc, seed_passes, recursive_passes, rounds>>

\* MicroRuntime::insert
Insert(relation, ground_atom) ==
    /\ pc = "idle"
    /\ <<relation, ground_atom>> \in inserted \/ Cardinality(inserted) < MaxFacts
    /\ unprocessed_insertions' =
           StorageInsert(unprocessed_insertions, relation, ground_atom)
    /\ ret' = [op |-> "insert", relation |-> relation, fact |-> ground_atom,
               val |-> StorageInsertIsNew(unprocessed_insertions, relation, ground_atom)]
    /\ inserted' = inserted \cup {<<relation, ground_atom>>}
    /\ pending' = TRUE
    /\ UNCHANGED <<program, processed, nonrecursive_delta_program,
                   recursive_delta_program, pc, seed_passes, recursive_passes, rounds>>

\* MicroRuntime::contains
Contains(relation, ground_atom) ==
    /\ pc = "idle"
    /\ ret' = [op |-> "contains", relation |-> relation, fact |-> ground_atom,
               val |-> contains(relation, ground_atom)]
    /\ UNCHANGED <<program, processed, unprocessed_insertions,
                   nonrecursive_delta_program, recursive_delta_program, pc,
                   seed_passes, recursive_passes, inserted, rounds, pending>>

\* A fault: a query that finds facts buffered evaluates them itself instead of
\* refusing.
QueryPolls(q) ==
    /\ pc = "idle"
    /\ ret' = [op |-> "query", query |-> q, val |-> query(q)]
    /\ processed' = PollResult(processed, unprocessed_insertions,
                               nonrecursive_delta_program, recursive_delta_program)
    /\ unprocessed_insertions' = DrainAllRelations(unprocessed_insertions)
    /\ UNCHANGED <<program, nonrecursive_delta_program, recursive_delta_program, pc,
                   seed_passes, recursive_passes, inserted, rounds, pending>>

\* MicroRuntime::query
Query(q) ==
    /\ pc = "idle"
    /\ ret' = [op |-> "query", query |-> q, val |-> query(q)]
    /\ UNCHANGED <<program, processed, unprocessed_insertions,
                   nonrecursive_delta_program, recursive_delta_program, pc,
                   seed_passes, recursive_passes, inserted, rounds, pending>>

\* MicroRuntime::safe
Safe ==
    /\ pc = "idle"
    /\ ret' = [op |-> "safe", val |-> safe]
    /\ UNCHANGED <<program, processed, unprocessed_insertions,
                   nonrecursive_delta_program, recursive_delta_program, pc,
                   seed_passes, recursive_passes, inserted, rounds, pending>>

\* A fault: poll without its emptiness check, evaluating over an empty buffer.
PollNothingEvaluates ==
    /\ pc = "idle"
    /\ StorageIsEmpty(unprocessed_insertions)
    /\ processed' = DumpDrained(processed, DrainedRelations(unprocessed_insertions))
    /\ unprocessed_insertions' = DrainAllRelations(unprocessed_insertions)
    /\ pc' = "seed"
    /\ ret' = [op |-> "poll", drained |-> FALSE]
    /\ pending' = FALSE
    /\ seed_passes' = 0
    /\ recursive_passes' = 0
    /\ UNCHANGED <<program, nonrecursive_delta_program, recursive_delta_program,
                   inserted, rounds>>

\* MicroRuntime::poll with nothing buffered: it returns at once.
PollNothing ==
    /\ pc = "idle"
    /\ StorageIsEmpty(unprocessed_insertions)
    /\ ret' = [op |-> "poll", drained |-> FALSE]
    /\ pending' = FALSE
    /\ seed_passes' = 0
    /\ recursive_passes' = 0
    /\ UNCHANGED <<program, processed, unprocessed_insertions,
                   nonrecursive_delta_program, recursive_delta_program, pc, inserted,
                   rounds>>

\* A fault: the drained facts replace what their relations held.
PollDumpOverwrites ==
    /\ pc = "idle"
    /\ ~StorageIsEmpty(unprocessed_insertions)
    /\ processed' =
           [sym \in DOMAIN processed \cup DOMAIN unprocessed_insertions
                     \cup {Delta(r) : r \in DOMAIN unprocessed_insertions} |->
               IF StripDelta(sym) \in DOMAIN unprocessed_insertions
               THEN unprocessed_insertions[StripDelta(sym)]
               ELSE processed[sym]]
    /\ unprocessed_insertions' = DrainAllRelations(unprocessed_insertions)
    /\ pc' = "seed"
    /\ seed_passes' = 0
    /\ recursive_passes' = 0
    /\ ret' = [op |-> "poll", drained |-> TRUE]
    /\ pending' = FALSE
    /\ rounds' = IF rounds < 2 THEN rounds + 1 ELSE rounds
    /\ UNCHANGED <<program, nonrecursive_delta_program, recursive_delta_program,
                   inserted>>

\* A fault: the drained facts go into their relations and not into the delta
\* relations.
PollDumpBaseOnly ==
    /\ pc = "idle"
    /\ ~StorageIsEmpty(unprocessed_insertions)
    /\ processed' =
           [sym \in DOMAIN processed \cup DOMAIN unprocessed_insertions |->
               get_relation(processed, sym) \cup get_relation(unprocessed_insertions, sym)]
    /\ unprocessed_insertions' = DrainAllRelations(unprocessed_insertions)
    /\ pc' = "seed"
    /\ seed_passes' = 0
    /\ recursive_passes' = 0
    /\ ret' = [op |-> "poll", drained |-> TRUE]
    /\ pending' = FALSE
    /\ rounds' = IF rounds < 2 THEN rounds + 1 ELSE rounds
    /\ UNCHANGED <<program, nonrecursive_delta_program, recursive_delta_program,
                   inserted>>

\* A fault: the drained facts go into the delta relations and not into their
\* relations.
PollDumpDeltaOnly ==
    /\ pc = "idle"
    /\ ~StorageIsEmpty(unprocessed_insertions)
    /\ processed' =
           [sym \in DOMAIN processed
                     \cup {Delta(r) : r \in DOMAIN unprocessed_insertions} |->
               IF IsDelta(sym)
               THEN get_relation(processed, sym)
                    \cup get_relation(unprocessed_insertions, StripDelta(sym))
               ELSE processed[sym]]
    /\ unprocessed_insertions' = DrainAllRelations(unprocessed_insertions)
    /\ pc' = "seed"
    /\ seed_passes' = 0
    /\ recursive_passes' = 0
    /\ ret' = [op |-> "poll", drained |-> TRUE]
    /\ pending' = FALSE
    /\ rounds' = IF rounds < 2 THEN rounds + 1 ELSE rounds
    /\ UNCHANGED <<program, nonrecursive_delta_program, recursive_delta_program,
                   inserted>>

\* MicroRuntime::poll, first step: the buffer is drained into the delta and the
\* base relations.
PollDump ==
    /\ pc = "idle"
    /\ ~StorageIsEmpty(unprocessed_insertions)
    /\ processed' = DumpDrained(processed, DrainedRelations(unprocessed_insertions))
    /\ unprocessed_insertions' = DrainAllRelations(unprocessed_insertions)
    /\ pc' = "seed"
    /\ seed_passes' = 0
    /\ recursive_passes' = 0
    /\ ret' = [op |-> "poll", drained |-> TRUE]
    /\ pending' = FALSE
    /\ rounds' = IF rounds < 2 THEN rounds + 1 ELSE rounds
    /\ UNCHANGED <<program, nonrecursive_delta_program, recursive_delta_program,
                   inserted>>

\* `new - previous` on usize, then `if new_fact_count == 0 { return }`: where
\* the loop stands next.  With new < previous the subtraction underflows: a
\* build with overflow checks panics, a build without them gets the wrapped,
\* nonzero, difference and stays in the loop.
UsizeSubThenTest(new_non_delta_fact_count, previous_non_delta_fact_count) ==
    IF new_non_delta_fact_count < previous_non_delta_fact_count
    THEN {"panic", "loop"}
    ELSE LET new_fact_count ==
                 new_non_delta_fact_count - previous_non_delta_fact_count
         IN  IF new_fact_count = 0 THEN {"drain"} ELSE {"loop"}

\* A fault: the driver returns after the seed pass, making no recursive pass.
SeedPassThenReturn ==
    /\ pc = "seed"
    /\ processed' =
           materialize_nonrecursive_delta_program(processed, nonrecursive_delta_program)
    /\ seed_passes' = seed_passes + 1
    /\ pc' = "drain"
    /\ UNCHANGED <<program, unprocessed_insertions, nonrecursive_delta_program,
                   recursive_delta_program, recursive_passes, inserted, rounds,
                   pending, ret>>

\* A fault: the seed pass evaluates every rule against the storage as it found
\* it, so a rule does not read what the rules before it derived.
SeedPassFromSnapshot ==
    /\ pc = "seed"
    /\ processed' =
           materialize_recursive_delta_program(processed, nonrecursive_delta_program)
    /\ seed_passes' = seed_passes + 1
    /\ pc' = "loop"
    /\ UNCHANGED <<program, unprocessed_insertions, nonrecursive_delta_program,
                   recursive_delta_program, recursive_passes, inserted, rounds,
                   pending, ret>>

\* semi_naive_evaluation, the seed pass.
SeedPass ==
    /\ pc = "seed"
    /\ processed' =
           materialize_nonrecursive_delta_program(processed, nonrecursive_delta_program)
    /\ seed_passes' = seed_passes + 1
    /\ pc' = "loop"
    /\ UNCHANGED <<program, unprocessed_insertions, nonrecursive_delta_program,
                   recursive_delta_program, recursive_passes, inserted, rounds,
                   pending, ret>>

\* A fault: the loop dropped, a single recursive pass whatever it added.
RecursivePassOnce ==
    /\ pc = "loop"
    /\ processed' =
           materialize_recursive_delta_program(processed, recursive_delta_program)
    /\ pc' = "drain"
    /\ recursive_passes' = recursive_passes + 1
    /\ UNCHANGED <<program, unprocessed_insertions, nonrecursive_delta_program,
                   recursive_delta_program, seed_passes, inserted, rounds, pending,
                   ret>>

\* A fault: the loop's test is off by one, it returns when the pass added at
\* most one fact.
RecursivePassStopsEarly ==
    /\ pc = "loop"
    /\ \E after \in {materialize_recursive_delta_program(processed,
                                                         recursive_delta_program)} :
          LET new_fact_count == StorageLen(after) - StorageLen(processed)
          IN  /\ processed' = after
              /\ pc' = IF new_fact_count <= 1 THEN "drain" ELSE "loop"
    /\ recursive_passes' = recursive_passes + 1
    /\ UNCHANGED <<program, unprocessed_insertions, nonrecursive_delta_program,
                   recursive_delta_program, seed_passes, inserted, rounds, pending,
                   ret>>

\* A fault: the count taken before the pass is over every relation, the delta
\* relations included.
RecursivePassCountsDeltas ==
    /\ pc = "loop"
    /\ \E after \in {materialize_recursive_delta_program(processed,
                                                         recursive_delta_program)} :
          LET previous_non_delta_fact_count == SumCard(processed, DOMAIN processed)
              new_non_delta_fact_count == StorageLen(after)
          IN  /\ processed' = after
              /\ pc' \in UsizeSubThenTest(new_non_delta_fact_count,
                                          previous_non_delta_fact_count)
    /\ recursive_passes' = recursive_passes + 1
    /\ UNCHANGED <<program, unprocessed_insertions, nonrecursive_delta_program,
                   recursive_delta_program, seed_passes, inserted, rounds, pending,
                   ret>>

\* semi_naive_evaluation, one turn of the loop: it returns when the pass added
\* no fact to the non-delta relations.
\* (`after` is the storage the pass leaves, computed once.)
RecursivePass ==
    /\ pc = "loop"
    /\ \E after \in {materialize_recursive_delta_program(processed,
                                                         recursive_delta_program)} :
          LET previous_non_delta_fact_count == StorageLen(processed)
              new_non_delta_fact_count == StorageLen(after)
          IN  /\ processed' = after
              /\ pc' \in UsizeSubThenTest(new_non_delta_fact_count,
                                          previous_non_delta_fact_count)
    /\ recursive_passes' = recursive_passes + 1
    /\ UNCHANGED <<program, unprocessed_insertions, nonrecursive_delta_program,
                   recursive_delta_program, seed_passes, inserted, rounds, pending,
                   ret>>

\* A fault: poll ends by draining every relation, not the deltas alone.
PollDrainsEverything ==
    /\ pc = "drain"
    /\ processed' = DrainAllRelations(processed)
    /\ pc' = "idle"
    /\ UNCHANGED <<program, unprocessed_insertions, nonrecursive_delta_program,
                   recursive_delta_program, seed_passes, recursive_passes, inserted,
                   rounds, pending, ret>>

\* A fault: poll returns without draining the deltas.
PollReturnsUndrained ==
    /\ pc = "drain"
    /\ pc' = "idle"
    /\ UNCHANGED <<program, processed, unprocessed_insertions,
                   nonrecursive_delta_program, recursive_delta_program, seed_passes,
                   recursive_passes, inserted, rounds, pending, ret>>

\* MicroRuntime::poll, last step: the deltas are drained and poll returns.
PollDrainDeltas ==
    /\ pc = "drain"
    /\ processed' = drain_deltas(processed)
    /\ pc' = "idle"
    /\ UNCHANGED <<program, unprocessed_insertions, nonrecursive_delta_program,
                   recursive_delta_program, seed_passes, recursive_passes, inserted,
                   rounds, pending, ret>>

Next ==
    \/ \E rf \in InsertUniverse(program) : Insert(rf[1], rf[2])
    \/ \E rf \in ContainsUniverse(program) : Contains(rf[1], rf[2])
    \/ \E q \in QueryUniverse(program) : Query(q)
    \/ Safe
    \/ PollNothing
    \/ PollDump
    \/ SeedPass
    \/ RecursivePass
    \/ PollDrainDeltas

\* A runtime constructed from any of the three programs.
Init == InitWith(Programs)

Spec == Init /\ [][Next]_vars

\* A runtime for the transitive-closure program.
InitTc == InitWith({tc_program})

SpecTc == InitTc /\ [][Next]_vars

\* A runtime for the transitive closure next to a rule that reads it.
InitTcp == InitWith({tcp_program})

SpecTcp == InitTcp /\ [][Next]_vars

\* A runtime for the nonrecursive ENV / FENV chain.
InitEnv == InitWith({env_program})

SpecEnv == InitEnv /\ [][Next]_vars

(***************************************************************************)
(* poll() on its own: a runtime that has polled the facts S1 (or none) and *)
(* then been given the facts S2, and from there only poll() is called.     *)
(***************************************************************************)
\* The facts S, by relation, with an entry for every relation of the program.
StorageOf(prog, S) ==
    [sym \in RelationsOf(prog) \cup {rf[1] : rf \in S} |->
        {rf[2] : rf \in {x \in S : x[1] = sym}}]

\* The <<S1, S2>> a caller may have inserted: S1 before one poll, S2 after it.
BufferedSplits(prog) ==
    {ss \in (SUBSET InsertUniverse(prog)) \X (SUBSET InsertUniverse(prog)) :
        /\ ss[1] \cap ss[2] = {}
        /\ Cardinality(ss[1] \cup ss[2]) <= MaxFacts}

\* How many recursive passes semi_naive_evaluation's loop makes from st.
RECURSIVE LoopPasses(_, _)
LoopPasses(st, rec) ==
    LET after == materialize_recursive_delta_program(st, rec)
    IN  IF StorageLen(after) - StorageLen(st) = 0 THEN 1
        ELSE 1 + LoopPasses(after, rec)

\* MicroRuntime::new(prog), then insert of every fact of S1 and one poll() if
\* S1 has a fact, then insert of every fact of S2, a fact of S2 the last.
InitPolling ==
    /\ program \in Programs
    /\ nonrecursive_delta_program = NewDeltaPrograms(program)[1]
    /\ recursive_delta_program = NewDeltaPrograms(program)[2]
    /\ pc = "idle"
    /\ \E ss \in BufferedSplits(program) :
          /\ inserted = ss[1] \cup ss[2]
          /\ processed =
                 PollResult(NewProcessed(program), StorageOf(program, ss[1]),
                            nonrecursive_delta_program, recursive_delta_program)
          /\ unprocessed_insertions =
                 [sym \in DOMAIN StorageOf(program, ss[1] \cup ss[2]) |->
                     get_relation(StorageOf(program, ss[2]), sym)]
          /\ rounds = IF ss[1] = {} THEN 0 ELSE 1
          /\ seed_passes = IF ss[1] = {} THEN 0 ELSE 1
          /\ recursive_passes =
                 IF ss[1] = {} THEN 0
                 ELSE LoopPasses(
                          materialize_nonrecursive_delta_program(
                              DumpDrained(NewProcessed(program),
                                          DrainedRelations(StorageOf(program, ss[1]))),
                              nonrecursive_delta_program),
                          recursive_delta_program)
          /\ pending = (ss[2] # {})
          /\ IF ss[2] # {}
             THEN \E rf \in ss[2] :
                      ret = [op |-> "insert", relation |-> rf[1], fact |-> rf[2],
                             val |-> TRUE]
             ELSE IF ss[1] # {}
                  THEN ret = [op |-> "poll", drained |-> TRUE]
                  ELSE ret = [op |-> "new"]

NextPolling ==
    \/ PollNothing
    \/ PollDump
    \/ SeedPass
    \/ RecursivePass
    \/ PollDrainDeltas

\* poll() is synchronous: once it has started, the caller gets control back
\* only when it returns, so each of its steps is taken when it is the next one.
SpecPolling ==
    /\ InitPolling
    /\ [][NextPolling]_vars
    /\ WF_vars(SeedPass)
    /\ WF_vars(RecursivePass)
    /\ WF_vars(PollDrainDeltas)

(***************************************************************************)
(* Program construction on its own: a caller builds Vec<Rule> values,      *)
(* turns them into Programs, rebuilds a Program from the rules of one, and *)
(* hands one to MicroRuntime::new.                                         *)
(***************************************************************************)
\* No Program built yet, no runtime.
InitSyntax ==
    /\ program = <<>>
    /\ processed = EmptyStorage
    /\ unprocessed_insertions = EmptyStorage
    /\ nonrecursive_delta_program = <<>>
    /\ recursive_delta_program = <<>>
    /\ pc = "syntax"
    /\ seed_passes = 0
    /\ recursive_passes = 0
    /\ inserted = {}
    /\ rounds = 0
    /\ pending = FALSE
    /\ ret = [op |-> "none"]

\* Program::from(value), the first thing the caller does.
FromVec(value) ==
    /\ pc = "syntax"
    /\ ret.op = "none"
    /\ program' = ProgramFrom(value)
    /\ ret' = [op |-> "from", value |-> value, val |-> ProgramFrom(value)]
    /\ UNCHANGED <<processed, unprocessed_insertions, nonrecursive_delta_program,
                   recursive_delta_program, pc, seed_passes, recursive_passes,
                   inserted, rounds, pending>>

\* Program::from(program.inner): a Program rebuilt from the rules of one.
FromProgram ==
    /\ pc = "syntax"
    /\ ret.op = "from"
    /\ program' = ProgramFrom(program)
    /\ ret' = [op |-> "from", value |-> program, val |-> ProgramFrom(program)]
    /\ UNCHANGED <<processed, unprocessed_insertions, nonrecursive_delta_program,
                   recursive_delta_program, pc, seed_passes, recursive_passes,
                   inserted, rounds, pending>>

\* MicroRuntime::new(program): it returns Self, for every Program.
New ==
    /\ pc = "syntax"
    /\ ret.op = "from"
    /\ processed' = NewProcessed(program)
    /\ unprocessed_insertions' = NewUnprocessed(program)
    /\ nonrecursive_delta_program' = NewDeltaPrograms(program)[1]
    /\ recursive_delta_program' = NewDeltaPrograms(program)[2]
    /\ pc' = "idle"
    /\ ret' = [op |-> "new"]
    /\ UNCHANGED <<program, seed_passes, recursive_passes, inserted, rounds, pending>>

NextSyntax ==
    \/ \E value \in RuleVecs : FromVec(value)
    \/ FromProgram
    \/ New

SpecSyntax == InitSyntax /\ [][NextSyntax]_vars

(***************************************************************************)
(* What the claims speak of.                                               *)
(***************************************************************************)
\* The non-delta relations of a storage.
BaseFacts(st) == [sym \in {n \in DOMAIN st : ~IsDelta(n)} |-> st[sym]]

\* The facts of one relation among the inserted ones.
InsertedInto(sym) == {rf[2] : rf \in {x \in inserted : x[1] = sym}}

\* Every inserted fact, by relation, with an (empty) entry for every relation
\* of the program.
InsertedStorage ==
    [sym \in RelationsOf(program) \cup {rf[1] : rf \in inserted} |-> InsertedInto(sym)]

\* The pairs <<u, v>> with a path of one or more edges of E from u to v.
PathPairs(E) ==
    {p \in Nodes \X Nodes :
        \E n \in 1..Cardinality(Nodes) :
            \E path \in [1..(n + 1) -> Nodes] :
                /\ path[1] = p[1]
                /\ path[n + 1] = p[2]
                /\ \A i \in 1..n : <<path[i], path[i + 1]>> \in E}

\* One round of naive evaluation of the (original) rules: every rule applied to
\* the same storage, what it derives added to its head relation.
RECURSIVE NaiveStore(_, _, _, _)
NaiveStore(prog, i, snapshot, st) ==
    IF i > Len(prog) THEN st
    ELSE NaiveStore(prog, i + 1, snapshot,
             [st EXCEPT ![prog[i].head.symbol] = @ \cup EvaluateRule(prog[i], snapshot)])

\* The least fixpoint of the program over the given facts.
RECURSIVE LeastFixpoint(_, _)
LeastFixpoint(prog, st) ==
    LET next == NaiveStore(prog, 1, st, st)
    IN  IF next = st THEN st ELSE LeastFixpoint(prog, next)

TcAll == MkQuery("tc", <<MAny, MAny>>)

TcFromA == MkQuery("tc", <<MConstant("a"), MAny>>)

\* poll() has returned and nothing has been inserted since.
Polled == pc = "idle" /\ ~pending

(***************************************************************************)
(* C1. Transitive closure: on a fresh runtime for the tc program, after    *)
(* e facts E are inserted and poll() is called once, query tc(_, _)        *)
(* returns exactly the pairs joined by a path of one or more edges of E.   *)
(***************************************************************************)
C1_TcIsReachability ==
    (/\ program = tc_program
     /\ ret.op = "query"
     /\ ret.query = TcAll
     /\ rounds = 1
     /\ ~pending
     /\ \A rf \in inserted : rf[1] = "e")
    => ret.val = [ok |-> PathPairs(InsertedInto("e"))]

\* A three-hop answer: the cycle a -> b -> c -> a gives tc(a, a).
C1_Witness ==
    /\ program = tc_program
    /\ ret.op = "query"
    /\ ret.query = TcAll
    /\ rounds = 1
    /\ ~pending
    /\ InsertedInto("e") = {<<"a", "b">>, <<"b", "c">>, <<"c", "a">>}
    /\ inserted = {<<"e", f>> : f \in InsertedInto("e")}
    /\ <<"a", "a">> \in ret.val.ok

(***************************************************************************)
(* C2. Least fixpoint: for every positive program, also one whose          *)
(* nonrecursive rule reads a recursive relation (p(x) <- tc(x, y)), after  *)
(* poll() the processed base relations are the least fixpoint of the       *)
(* program over every fact inserted so far.                                *)
(***************************************************************************)
C2_ProcessedIsLeastFixpoint ==
    Polled => BaseFacts(processed) = LeastFixpoint(program, InsertedStorage)

(***************************************************************************)
(* C3. Incremental equals batch: for the tc program, after two or more     *)
(* insert-then-poll rounds the processed base relations are those of a     *)
(* fresh runtime given every inserted fact at once and polled once.        *)
(***************************************************************************)
BatchResult ==
    PollResult(NewProcessed(program), InsertedStorage,
               NewDeltaPrograms(program)[1], NewDeltaPrograms(program)[2])

C3_IncrementalIsBatch ==
    (program = tc_program /\ Polled /\ rounds = 2)
    => BaseFacts(processed) = BaseFacts(BatchResult)

\* The second round joined its edge to the closure the first round left.
C3_Witness ==
    /\ program = tc_program
    /\ Polled
    /\ rounds = 2
    /\ ret = [op |-> "poll", drained |-> TRUE]
    /\ InsertedInto("e") = {<<"a", "b">>, <<"b", "c">>, <<"c", "a">>}
    /\ <<"c", "c">> \in processed["tc"]

(***************************************************************************)
(* C4. Stale reads: query and contains return the error "poll needed to    *)
(* obtain correct results" exactly when an insert has happened since the   *)
(* last poll (or since construction); right after a poll they return Ok.   *)
(***************************************************************************)
C4_StaleReadError ==
    ret.op \in {"query", "contains"}
    => /\ ("err" \in DOMAIN ret.val) = pending
       /\ ("ok" \in DOMAIN ret.val) = ~pending
       /\ "err" \in DOMAIN ret.val => ret.val.err = PollNeeded

\* A read refused between an insert and the next poll, after an earlier poll.
C4_Witness ==
    /\ ret.op = "contains"
    /\ pending
    /\ rounds >= 1
    /\ ret.val = [err |-> PollNeeded]

(***************************************************************************)
(* C5. safe(): true after MicroRuntime::new, false after every insert      *)
(* whatever it returned, true again after every poll; it is true exactly   *)
(* when the buffer holds no fact, and the buffer keeps its (empty) entries *)
(* once drained.                                                           *)
(***************************************************************************)
C5_SafeTracksBuffer ==
    ret.op = "safe"
    => /\ ret.val = ~pending
       /\ ret.val = (\A sym \in DOMAIN unprocessed_insertions :
                         unprocessed_insertions[sym] = {})
       /\ RelationsOf(program) \subseteq DOMAIN unprocessed_insertions

\* safe() true after a poll that drained the buffer, its entries still there.
C5_Witness ==
    /\ ret = [op |-> "safe", val |-> TRUE]
    /\ rounds >= 1
    /\ DOMAIN unprocessed_insertions # {}
    /\ inserted # {}

(***************************************************************************)
(* C6. As claimed: contains reports a fact as present (Ok(true)) when it   *)
(* is in the unprocessed buffer and not yet materialized by poll.          *)
(***************************************************************************)
C6_ContainsSeesBuffered ==
    (/\ ret.op = "contains"
     /\ StorageContains(unprocessed_insertions, ret.relation, ret.fact)
     /\ ~StorageContains(processed, ret.relation, ret.fact))
    => ret.val = [ok |-> TRUE]

(***************************************************************************)
(* C6, amended. contains on a buffered fact returns the stale-read error,  *)
(* as query does; it returns Ok(true) only for a fact of the processed     *)
(* storage, so its look into the buffer never finds anything.              *)
(***************************************************************************)
C6_ContainsBufferedIsError ==
    /\ (ret.op = "contains"
        /\ StorageContains(unprocessed_insertions, ret.relation, ret.fact))
       => ret.val = [err |-> PollNeeded]
    /\ (ret.op = "contains" /\ ret.val = [ok |-> TRUE])
       => StorageContains(processed, ret.relation, ret.fact)
    /\ (ret.op = "query" /\ pending) => ret.val = [err |-> PollNeeded]

\* contains asked about a fact that is buffered and not yet processed.
C6_Witness ==
    /\ ret.op = "contains"
    /\ StorageContains(unprocessed_insertions, ret.relation, ret.fact)
    /\ ~StorageContains(processed, ret.relation, ret.fact)

(***************************************************************************)
(* C7. Inserting a fact a second time before the poll: the insert of a     *)
(* fact the buffer does not hold returns true, the insert of one it holds  *)
(* returns false and leaves the buffer (a set: one copy) and the processed *)
(* storage as they were, so the poll sees what one insert would have left. *)
(***************************************************************************)
C7_SecondInsertIsNoop ==
    [][ret'.op = "insert"
       => LET held == StorageContains(unprocessed_insertions, ret'.relation, ret'.fact)
          IN  /\ ret'.val = ~held
              /\ held => unprocessed_insertions' = unprocessed_insertions
              /\ ~held => unprocessed_insertions' # unprocessed_insertions
              /\ ret'.fact \in unprocessed_insertions'[ret'.relation]
              /\ processed' = processed]_vars

\* The second insert of a buffered fact has returned false.
C7_Witness ==
    /\ ret.op = "insert"
    /\ ret.val = FALSE
    /\ StorageContains(unprocessed_insertions, ret.relation, ret.fact)
    /\ ~StorageContains(processed, ret.relation, ret.fact)

(***************************************************************************)
(* C8. When safe() holds, query(q) returns exactly the facts of the        *)
(* processed relation q.symbol that agree with q at every Constant         *)
(* position.                                                               *)
(***************************************************************************)
C8_QueryIsExactMatch ==
    (ret.op = "query" /\ ~pending)
    => ret.val =
         [ok |-> {f \in get_relation(processed, ret.query.symbol) :
                    /\ Len(f) = Len(ret.query.matchers)
                    /\ \A i \in 1..Len(f) :
                          ret.query.matchers[i].kind = "Constant"
                          => f[i] = ret.query.matchers[i].v}]

\* tc("a", _) returned some tc facts and left out others.
C8_Witness ==
    /\ ret.op = "query"
    /\ ret.query = TcFromA
    /\ ~pending
    /\ ret.val.ok # {}
    /\ ret.val.ok # processed["tc"]

(***************************************************************************)
(* C9. As claimed: for an acyclic program a poll() with facts buffered     *)
(* makes exactly one seed pass and zero recursive passes.                  *)
(***************************************************************************)
C9_NoRecursivePass ==
    (program = env_program /\ pc = "idle" /\ ret = [op |-> "poll", drained |-> TRUE])
    => seed_passes = 1 /\ recursive_passes = 0

(***************************************************************************)
(* C9, amended. For an acyclic program a poll() with facts buffered makes  *)
(* exactly one seed pass and exactly one recursive pass, over a recursive  *)
(* delta program that has no rule.                                         *)
(***************************************************************************)
C9_OneEmptyRecursivePass ==
    (program = env_program /\ pc = "idle" /\ ret = [op |-> "poll", drained |-> TRUE])
    => seed_passes = 1 /\ recursive_passes = 1 /\ recursive_delta_program = <<>>

\* A poll of the ENV / FENV chain that derived FENV(a) has returned.
C9_Witness ==
    /\ program = env_program
    /\ pc = "idle"
    /\ ret = [op |-> "poll", drained |-> TRUE]
    /\ <<"a">> \in processed["FENV"]

(***************************************************************************)
(* C10. poll() with an empty buffer is a no-op: no evaluation pass runs    *)
(* and the processed storage (base and delta relations) and the buffer     *)
(* are unchanged, so poll(); poll() leaves what one poll() leaves.         *)
(***************************************************************************)
C10_EmptyPollIsNoop ==
    [][(pc = "idle" /\ safe /\ ret'.op = "poll")
       => /\ processed' = processed
          /\ unprocessed_insertions' = unprocessed_insertions
          /\ pc' = "idle"
          /\ seed_passes' = 0
          /\ recursive_passes' = 0]_vars

\* A second poll() right after one that derived facts.
C10_Witness ==
    /\ ret = [op |-> "poll", drained |-> FALSE]
    /\ pc = "idle"
    /\ rounds >= 1
    /\ \E sym \in DOMAIN processed : processed[sym] # {}

(***************************************************************************)
(* C11. query, contains and safe are read-only, whether they return Ok or  *)
(* Err: they leave the processed storage (base and delta relations) and    *)
(* the buffer as they were and start no evaluation pass.  insert changes   *)
(* the buffer alone, in the one relation it names; the processed storage   *)
(* changes in the steps of a poll and in no other.                         *)
(***************************************************************************)
C11_ReadsAreReadOnly ==
    [][/\ ret'.op \in {"query", "contains", "safe"}
          => /\ processed' = processed
             /\ unprocessed_insertions' = unprocessed_insertions
             /\ pc' = "idle"
             /\ seed_passes' = seed_passes
             /\ recursive_passes' = recursive_passes
       /\ (pc = "idle" /\ ret'.op = "insert")
          => /\ processed' = processed
             /\ pc' = "idle"
             /\ seed_passes' = seed_passes
             /\ recursive_passes' = recursive_passes
             /\ get_relation(unprocessed_insertions', ret'.relation) =
                    get_relation(unprocessed_insertions, ret'.relation) \cup {ret'.fact}
             /\ \A sym \in DOMAIN unprocessed_insertions' \ {ret'.relation} :
                    /\ sym \in DOMAIN unprocessed_insertions
                    /\ unprocessed_insertions'[sym] = unprocessed_insertions[sym]
       /\ processed' # processed => ret'.op = "poll"]_vars

\* A query refused with facts buffered, next to a processed storage that an
\* earlier poll filled.
C11_Witness ==
    /\ ret.op = "query"
    /\ ret.val = [err |-> PollNeeded]
    /\ rounds >= 1
    /\ ~StorageIsEmpty(unprocessed_insertions)
    /\ processed["tc"] # {}

(***************************************************************************)
(* C12. After MicroRuntime::new and after every poll() has returned, that  *)
(* is in every state between two calls, no delta relation of the processed *)
(* storage holds a fact; and what a poll sees as delta when it starts is   *)
(* exactly what the buffer held, the facts inserted since the poll before. *)
(***************************************************************************)
C12_DeltasEmptyBetweenCalls ==
    [][/\ pc = "idle"
          => \A sym \in DOMAIN processed : IsDelta(sym) => processed[sym] = {}
       /\ pc' = "idle"
          => \A sym \in DOMAIN processed' : IsDelta(sym) => processed'[sym] = {}
       /\ (pc = "idle" /\ pc' = "seed")
          => /\ \A sym \in DOMAIN processed' :
                    IsDelta(sym)
                    => processed'[sym] =
                           get_relation(unprocessed_insertions, StripDelta(sym))
             /\ \A sym \in DOMAIN unprocessed_insertions :
                    Delta(sym) \in DOMAIN processed']_vars

\* A second poll has just drained its buffer: the delta of e holds the new
\* edge alone, next to the edges of the round before.
C12_Witness ==
    /\ pc = "seed"
    /\ rounds = 2
    /\ processed[Delta("e")] # {}
    /\ processed[Delta("e")] # processed["e"]
    /\ processed[Delta("tc")] = {}

(***************************************************************************)
(* C13. A rule with one body atom that only projects or renames columns:   *)
(* after poll, FENV(x) <- ENV(x, y) has derived exactly the projection of  *)
(* every ENV fact, and ENV(x, y) <- INPUTS("env", x, y) that of every      *)
(* matching INPUTS fact: one derived fact for each source fact, the same   *)
(* one for source facts that agree on the kept columns, and never more     *)
(* derived facts than source facts.  Each such rule has one delta variant, *)
(* so no second variant fires on the same source fact.                     *)
(***************************************************************************)
C13_ProjectionOncePerFact ==
    (program = env_program /\ Polled)
    => /\ processed["FENV"] = {<<f[1]>> : f \in processed["ENV"]}
       /\ processed["ENV"] =
              {<<f[2], f[3]>> : f \in {g \in processed["INPUTS"] : g[1] = "env"}}
              \cup InsertedInto("ENV")
       /\ Cardinality(processed["FENV"]) <= Cardinality(processed["ENV"])
       /\ Len(nonrecursive_delta_program) = Len(program)
       /\ recursive_delta_program = <<>>
       /\ \A i \in 1..Len(nonrecursive_delta_program) :
              LET rule == nonrecursive_delta_program[i]
              IN  /\ Len(rule.body) = 1
                  /\ IsDelta(rule.body[1].symbol)
                  /\ IsDelta(rule.head.symbol)

\* Three ENV facts, two of them with the same first column, gave two FENV
\* facts in the poll that derived ENV from INPUTS.
C13_Witness ==
    /\ program = env_program
    /\ Polled
    /\ rounds = 1
    /\ processed["ENV"] = {<<"a", "c">>, <<"b", "c">>, <<"a", "b">>}
    /\ processed["FENV"] = {<<"a">>, <<"b">>}

(***************************************************************************)
(* C14. As claimed: MicroRuntime::new on a Program with a rule whose head  *)
(* has a variable that no body atom binds reports a construction error to  *)
(* the caller instead of yielding a runtime, also when the Program was     *)
(* built from Rule values directly.                                        *)
(***************************************************************************)
C14_UnsafeHeadIsConstructionError ==
    (ret.op = "new" /\ \E i \in 1..Len(program) : ~HeadSafe(program[i]))
    => /\ "err" \in DOMAIN ret
       /\ pc # "idle"

(***************************************************************************)
(* C15. A relation name the program does not mention is an implicit empty  *)
(* relation, never an error.  With nothing buffered, query and contains on *)
(* such a name return Ok, and as long as no fact was inserted for it query *)
(* returns no fact and contains returns false.  An insert for such a name  *)
(* followed by poll() ends with safe() true, and the program's relations   *)
(* hold what the facts inserted for the program's relations give: the fact *)
(* of the unknown relation changes none of them.                           *)
(***************************************************************************)
KnownInserted == [sym \in RelationsOf(program) |-> InsertedInto(sym)]

SameHeadAndBody(r, s) == r.head = s.head /\ r.body = s.body

C16_ProgramIsDeduplicated ==
    ret.op = "from"
    => \A i, j \in 1..Len(ret.val) :
           i # j => ~SameHeadAndBody(ret.val[i], ret.val[j])

(***************************************************************************)
(* C16, amended. A Program built from a list of rules is sorted and        *)
(* id-assigned, not deduplicated: it has as many rules as the list, a rule *)
(* (head and body) that the list holds k times is k times in the Program,  *)
(* at consecutive positions, and it is the ids that tell the copies apart: *)
(* no two rules of the Program agree in head, body and id.                 *)
(***************************************************************************)
Occurrences(s, r) == Cardinality({i \in 1..Len(s) : SameHeadAndBody(s[i], r)})

C16_ProgramKeepsEveryRule ==
    ret.op = "from"
    => /\ Len(ret.val) = Len(ret.value)
       /\ \A i \in 1..Len(ret.value) :
              Occurrences(ret.val, ret.value[i]) = Occurrences(ret.value, ret.value[i])
       /\ \A i, j \in 1..Len(ret.val) :
              (i < j /\ SameHeadAndBody(ret.val[i], ret.val[j]))
              => /\ ret.val[i] # ret.val[j]
                 /\ \A k \in i..j : SameHeadAndBody(ret.val[i], ret.val[k])

\* A list that names one rule twice, around another rule, gave a Program with
\* both copies next to each other.
C16_Witness ==
    /\ ret.op = "from"
    /\ Len(ret.value) = 3
    /\ ret.value[1] = ret.value[3]
    /\ ~SameHeadAndBody(ret.value[1], ret.value[2])
    /\ \E i \in 1..2 : SameHeadAndBody(ret.val[i], ret.val[i + 1])

(***************************************************************************)
(* C17. For every list of n rules, whatever ids they carry, Program::from  *)
(* gives n rules in nondecreasing (head, body) order with ids 0 .. n-1,    *)
(* the rule at position i having id i; and a Program rebuilt from the rule *)
(* list of a Program is that Program.                                      *)
(***************************************************************************)
HeadBodyLeq(r, s) ==
    LET c == CmpAtom(r.head, s.head)
    IN  c < 0 \/ (c = 0 /\ CmpAtoms(r.body, s.body) <= 0)

C17_IdsFollowSortOrder ==
    ret.op = "from"
    => /\ Len(ret.val) = Len(ret.value)
       /\ \A i \in 1..Len(ret.val) : ret.val[i].id = i - 1
       /\ \A i, j \in 1..Len(ret.val) : i < j => HeadBodyLeq(ret.val[i], ret.val[j])
       /\ ProgramFrom(ret.val) = ret.val
       /\ program = ret.val

\* A Program of three rules rebuilt from its own rule list.
C17_Witness ==
    /\ ret.op = "from"
    /\ Len(ret.val) = 3
    /\ ret.value = ret.val
    /\ ~SameHeadAndBody(ret.val[1], ret.val[3])

(***************************************************************************)
(* C18. The steps of one poll() that finds facts buffered, in their order: *)
(* (1) every buffered fact goes into its relation and into its delta       *)
(* relation and the buffer is left empty; (2) the nonrecursive-delta       *)
(* program is materialized exactly once; (3) the recursive-delta program   *)
(* is materialized one or more times, never before step 2; (4) the deltas  *)
(* are drained after the loop has stopped, and in no other step.  No       *)
(* buffered fact is lost on the way and none is left in the buffer.        *)
(***************************************************************************)
C18_PollStepOrder ==
    [][/\ (pc = "idle" /\ pc' # "idle")
          => /\ pc' = "seed"
             /\ ~StorageIsEmpty(unprocessed_insertions)
             /\ \A sym \in DOMAIN unprocessed_insertions :
                    /\ unprocessed_insertions[sym] \subseteq
                           get_relation(processed', sym)
                    /\ unprocessed_insertions[sym] \subseteq
                           get_relation(processed', Delta(sym))
             /\ StorageIsEmpty(unprocessed_insertions')
             /\ seed_passes' = 0
             /\ recursive_passes' = 0
       /\ pc = "seed"
          => /\ pc' = "loop"
             /\ seed_passes' = 1
             /\ recursive_passes' = 0
       /\ pc = "loop"
          => /\ pc' \in {"loop", "drain"}
             /\ seed_passes' = 1
             /\ seed_passes = 1
             /\ recursive_passes' = recursive_passes + 1
       /\ pc = "drain"
          => /\ pc' = "idle"
             /\ seed_passes' = 1
             /\ recursive_passes' = recursive_passes
             /\ recursive_passes >= 1
       /\ (\E sym \in DOMAIN processed :
               IsDelta(sym) /\ ~(processed[sym] \subseteq get_relation(processed', sym)))
          => pc = "drain"
       /\ pc # "idle"
          => /\ unprocessed_insertions' = unprocessed_insertions
             /\ StorageIsEmpty(unprocessed_insertions)
             /\ \A sym \in DOMAIN processed :
                    ~IsDelta(sym) => processed[sym] \subseteq get_relation(processed', sym)
             /\ ret' = [op |-> "poll", drained |-> TRUE]]_vars

\* A poll whose loop made three recursive passes has returned.
C18_Witness ==
    /\ pc = "idle"
    /\ ret = [op |-> "poll", drained |-> TRUE]
    /\ seed_passes = 1
    /\ recursive_passes = 3

(***************************************************************************)
(* C19. poll() terminates.  The loop of semi_naive_evaluation stops at the *)
(* first recursive pass that leaves the non-delta fact count unchanged and *)
(* at no other; every pass after which it continues has added at least one *)
(* fact, and facts come from a finite universe, so the passes of one poll  *)
(* are bounded and every poll that has started returns.  When the loop has *)
(* stopped, one more application of the recursive rules to the base        *)
(* relations adds no fact.                                                 *)
(***************************************************************************)
\* The rules of the program whose head relation is recursive.
RecursiveRulesOf(prog) ==
    SelectSeq(prog, LAMBDA r : r.head.symbol \in RecursiveRelations(prog))

C19_PollTerminates ==
    /\ [][pc = "loop"
           => LET new_fact_count == StorageLen(processed') - StorageLen(processed)
              IN  /\ (pc' = "drain") = (new_fact_count = 0)
                  /\ (pc' = "loop") = (new_fact_count >= 1)]_vars
    /\ [](recursive_passes <= Cardinality(Nodes \X Nodes) + 1)
    /\ [](pc = "drain"
           => NaiveStore(RecursiveRulesOf(program), 1,
                         BaseFacts(processed), BaseFacts(processed))
              = BaseFacts(processed))
    /\ (pc # "idle") ~> (pc = "idle")

\* The loop has stopped after four passes, the closure of a three-edge cycle
\* in the storage.
C19_Witness ==
    /\ pc = "drain"
    /\ recursive_passes = 4
    /\ Cardinality(processed["tc"]) = 9

(***************************************************************************)
(* C20. The processed base relations only grow: whatever the call, insert, *)
(* contains, query, safe or a step of poll, a fact that a non-delta        *)
(* relation of the processed storage holds before the step is in it after  *)
(* the step; draining the deltas takes no base fact away.                  *)
(***************************************************************************)
C20_BaseRelationsGrow ==
    [][\A sym \in DOMAIN processed :
           ~IsDelta(sym)
           => /\ sym \in DOMAIN processed'
              /\ processed[sym] \subseteq processed'[sym]]_vars

\* Two polls have returned: the edge and the closure of the first are still
\* there next to what the second added.
C20_Witness ==
    /\ Polled
    /\ rounds = 2
    /\ ret = [op |-> "poll", drained |-> TRUE]
    /\ Cardinality(processed["e"]) >= 2
    /\ Cardinality(processed["tc"]) >= 3
    /\ \A sym \in DOMAIN processed : IsDelta(sym) => processed[sym] = {}

(***************************************************************************)
(* C21. As claimed: at every point during a poll (after the buffer has     *)
(* been moved into the storage, after the seed pass, after each recursive  *)
(* pass) every delta relation is a strict subset of its base relation, and *)
(* between polls it has been cleared.                                      *)
(***************************************************************************)
DeltaRelations(st) == {sym \in DOMAIN st : IsDelta(sym)}

C21_DeltaStrictSubset ==
    /\ pc \in {"seed", "loop", "drain"}
       => \A sym \in DeltaRelations(processed) :
              /\ processed[sym] \subseteq get_relation(processed, StripDelta(sym))
              /\ processed[sym] # get_relation(processed, StripDelta(sym))
    /\ pc = "idle" => \A sym \in DeltaRelations(processed) : processed[sym] = {}

(***************************************************************************)
(* C21, amended. At every point during a poll every delta relation is a    *)
(* subset of its base relation, which has an entry, and the subset need    *)
(* not be strict: a relation that got no fact in this poll has an empty    *)
(* delta, also when the relation is empty, and in the first poll of a      *)
(* runtime every delta relation equals its base relation from the moment   *)
(* the buffer has been moved in.  Between polls every delta is empty.      *)
(***************************************************************************)
C21_DeltaSubset ==
    /\ pc \in {"seed", "loop", "drain"}
       => /\ \A sym \in DeltaRelations(processed) :
                 /\ StripDelta(sym) \in DOMAIN processed
                 /\ processed[sym] \subseteq processed[StripDelta(sym)]
          /\ rounds = 1
             => \A sym \in DeltaRelations(processed) :
                    processed[sym] = processed[StripDelta(sym)]
    /\ pc = "idle" => \A sym \in DeltaRelations(processed) : processed[sym] = {}

\* The loop of a second poll has stopped: the delta of tc holds what this poll
\* derived, fewer facts than tc, and the delta of e the one new edge.
C21_Witness ==
    /\ program = tc_program
    /\ pc = "drain"
    /\ rounds = 2
    /\ processed[Delta("tc")] # {}
    /\ processed[Delta("tc")] # processed["tc"]
    /\ Cardinality(processed[Delta("e")]) = 1
    /\ Cardinality(processed["e"]) = 3

(***************************************************************************)
(* C22. The nonrecursive chain ENV(x, y) <- INPUTS("env", x, y);           *)
(* FENV(x) <- ENV(x, y): in whichever order the two rules are given,       *)
(* Program::from builds the same Program, in which the FENV rule comes     *)
(* before the ENV rule it depends on; the nonrecursive delta program of    *)
(* the runtime is in dependency order all the same, no rule before a rule  *)
(* that derives one of its body relations, and one poll derives every fact *)
(* of every relation of the chain.  An INPUTS fact whose first value is    *)
(* not "env" derives nothing.                                              *)
(***************************************************************************)
\* The two orders the rules of the chain can be given in.
EnvOrders == {EnvRules, <<EnvRules[2], EnvRules[1]>>}

C22_ChainDerivedInOnePoll ==
    program = env_program
    => /\ \A value \in EnvOrders : ProgramFrom(value) = program
       /\ program[1].head.symbol = "FENV" /\ program[2].head.symbol = "ENV"
       /\ \A i, j \in 1..Len(nonrecursive_delta_program) :
              i < j
              => \A k \in 1..Len(nonrecursive_delta_program[i].body) :
                     StripDelta(nonrecursive_delta_program[i].body[k].symbol)
                         # StripDelta(nonrecursive_delta_program[j].head.symbol)
       /\ (Polled /\ rounds = 1)
          => /\ \A sym \in RelationsOf(program) :
                    processed[sym] = LeastFixpoint(program, InsertedStorage)[sym]
             /\ \A f \in InsertedInto("INPUTS") :
                    (<<f[2], f[3]>> \in processed["ENV"] /\ f[1] # "env")
                    => \/ <<"env", f[2], f[3]>> \in InsertedInto("INPUTS")
                       \/ <<f[2], f[3]>> \in InsertedInto("ENV")
             /\ \A x \in processed["FENV"] :
                    \E f \in InsertedInto("INPUTS") \cup InsertedInto("ENV") :
                        /\ f[Len(f) - 1] = x[1]
                        /\ Len(f) = 3 => f[1] = "env"

\* One poll has returned: the "env" row went through ENV into FENV, the "cfg"
\* row went nowhere.
C22_Witness ==
    /\ program = env_program
    /\ Polled
    /\ rounds = 1
    /\ inserted = {<<"INPUTS", <<"env", "a", "c">>>>, <<"INPUTS", <<"cfg", "b", "c">>>>}
    /\ processed["ENV"] = {<<"a", "c">>}
    /\ processed["FENV"] = {<<"a">>}

(***************************************************************************)
(* C23. In semi_naive_evaluation the fact count over the non-delta         *)
(* relations never decreases across a recursive pass, so the usize         *)
(* subtraction new_non_delta_fact_count - previous_non_delta_fact_count    *)
(* never underflows: no poll panics in it, and the loop never goes on      *)
(* because of a wrapped difference.                                        *)
(***************************************************************************)
C23_CountNeverUnderflows ==
    /\ [][pc = "loop"
           => /\ StorageLen(processed') >= StorageLen(processed)
              /\ pc' = "loop" => StorageLen(processed') > StorageLen(processed)]_vars
    /\ [](pc # "panic")

\* A second recursive pass of a second poll has added facts, and the loop goes
\* on.
C23_Witness ==
    /\ program = tc_program
    /\ pc = "loop"
    /\ rounds = 2
    /\ recursive_passes = 2
    /\ Cardinality(processed["tc"]) > Cardinality(processed[Delta("tc")])
    /\ Cardinality(processed[Delta("tc")]) >= 3

(***************************************************************************)
(* C24. Re-inserting a fact that the processed storage already holds, with *)
(* nothing buffered: insert returns true, whatever the processed storage   *)
(* holds, and safe() becomes false; the poll that follows evaluates with   *)
(* that fact as delta and leaves every processed base relation as it was   *)
(* before the insert.                                                      *)
(***************************************************************************)
C24_ReinsertChangesNothing ==
    [][(/\ pc = "idle"
        /\ safe
        /\ ret'.op = "insert"
        /\ StorageContains(processed, ret'.relation, ret'.fact))
       => /\ ret'.val = TRUE
          /\ ~safe'
          /\ processed' = processed
          /\ DumpDrained(processed', DrainedRelations(unprocessed_insertions'))
                 [Delta(ret'.relation)] = {ret'.fact}
          /\ BaseFacts(PollResult(processed', unprocessed_insertions',
                                  nonrecursive_delta_program,
                                  recursive_delta_program))
                 = BaseFacts(processed)]_vars

====
